---- MODULE Spec2Model ----
(***************************************************************************)
(* Model of adaptive_translation_app.py: the "Evaluate Translation"        *)
(* handler of a Streamlit session (validation, evaluate_translation,       *)
(* award_points, check_badges) and update_leaderboard's read-modify-write  *)
(* of leaderboard.csv, which several sessions share.                       *)
(*                                                                         *)
(* Texts are sequences of one-character strings, so that str.strip,        *)
(* str.lower, str.split, re.split and the substring test `in` are computed *)
(* as Python computes them.                                                *)
(***************************************************************************)
EXTENDS Integers, Sequences, FiniteSets, TLC

VARIABLES
    points,     \* st.session_state.points, per session
    badges,     \* st.session_state.badges (a list), per session
    attempts,   \* st.session_state.attempts, per session
    run,        \* the session's latest script run: its widget values, outcome and locals
    pc,         \* where the session's script run stands: idle, lb_read, lb_write
    df,         \* the DataFrame a session holds inside update_leaderboard
    file,       \* rows of leaderboard.csv (<<>>: the file does not exist)
    reported,   \* history: how often check_badges returned each badge, per session
    maxDone,    \* history: per student, the largest score of a completed update_leaderboard
    lastDone    \* history: per session, the arguments of its last completed update_leaderboard

vars == <<points, badges, attempts, run, pc, df, file, reported, maxDone, lastDone>>

----------------------------------------------------------------------------
(* Bounds of the model *)

\* evaluations a session may start
MaxAttempts == 2

----------------------------------------------------------------------------
(* Python string primitives on sequences of characters *)

IsSpace(c) == c \in {" ", "\t", "\n"}

\* str.lower(), on the letters the texts use
Lower(c) ==
    CASE c = "I" -> "i"
      [] c = "L" -> "l"
      [] c = "Y" -> "y"
      [] c = "H" -> "h"
      [] c = "O" -> "o"
      [] c = "V" -> "v"
      [] c = "E" -> "e"
      [] c = "J" -> "j"
      [] OTHER -> c

RECURSIVE lower(_)
lower(text) ==
    IF text = <<>> THEN <<>> ELSE <<Lower(Head(text))>> \o lower(Tail(text))

\* str.strip(): leading and trailing whitespace removed
RECURSIVE lstrip(_)
lstrip(text) ==
    IF text # <<>> /\ IsSpace(Head(text)) THEN lstrip(Tail(text)) ELSE text

RECURSIVE rstrip(_)
rstrip(text) ==
    IF text # <<>> /\ IsSpace(text[Len(text)])
    THEN rstrip(SubSeq(text, 1, Len(text) - 1))
    ELSE text

strip(text) == rstrip(lstrip(text))

\* `phrase in text` on strings: substring test
Contains(text, phrase) ==
    \E i \in 1..(Len(text) - Len(phrase) + 1) :
        \A k \in 1..Len(phrase) : text[i + k - 1] = phrase[k]

\* len(text.split()): the number of maximal runs of non-whitespace characters
WordCount(text) ==
    Cardinality({i \in 1..Len(text) :
                    /\ ~IsSpace(text[i])
                    /\ (i = 1 \/ IsSpace(text[i - 1]))})

IsTerminator(c) == c \in {".", "!", "?"}

\* re.split(r'[.!?]', text): the pieces between the terminators, empty
\* pieces included (i scans the text, start is where the piece began)
RECURSIVE SplitFrom(_, _, _)
SplitFrom(text, i, start) ==
    IF i > Len(text) THEN <<SubSeq(text, start, Len(text))>>
    ELSE IF IsTerminator(text[i])
         THEN <<SubSeq(text, start, i - 1)>> \o SplitFrom(text, i + 1, i + 1)
         ELSE SplitFrom(text, i + 1, start)

re_split(text) == SplitFrom(text, 1, 1)

\* sum(len(s.split()) for s in sentences)
RECURSIVE SumWords(_)
SumWords(sentences) ==
    IF sentences = <<>> THEN 0
    ELSE WordCount(Head(sentences)) + SumWords(Tail(sentences))

\* len(re.findall(r'[!?,;:]', text))
PunctuationCount(text) ==
    Cardinality({i \in 1..Len(text) : text[i] \in {"!", "?", ",", ";", ":"}})

Abs(x) == IF x < 0 THEN -x ELSE x

Max(a, b) == IF a >= b THEN a ELSE b

\* lines 48-50, given the sentences of line 47: avg_len is kept as the exact
\* fraction words/sentences, so that two averages compare exactly
ScoreOf(text, sentences) ==
    [words |-> SumWords(sentences),
     sentences |-> Max(Len(sentences), 1),
     punctuation |-> PunctuationCount(text)]

stylistic_score(text) == ScoreOf(text, re_split(text))

\* abs(src_len-trans_len)>3 or abs(src_punct-trans_punct)>2, on two scores
Exceeds(s, t) ==
    \/ Abs(s.words * t.sentences - t.words * s.sentences)
          > 3 * s.sentences * t.sentences
    \/ Abs(s.punctuation - t.punctuation) > 2

StylisticMismatch(source_text, translation_text) ==
    Exceeds(stylistic_score(source_text), stylistic_score(translation_text))

----------------------------------------------------------------------------
(* phrase_antonyms and the texts the model submits *)

\* "i love you"
P_i_love_you ==
    <<"i", " ", "l", "o", "v", "e", " ", "y", "o", "u">>

\* "i hate you"
P_i_hate_you ==
    <<"i", " ", "h", "a", "t", "e", " ", "y", "o", "u">>

\* "i dislike you"
P_i_dislike_you ==
    <<"i", " ", "d", "i", "s", "l", "i", "k", "e", " ", "y", "o", "u">>

\* "good morning"
P_good_morning ==
    <<"g", "o", "o", "d", " ", "m", "o", "r", "n", "i", "n", "g">>

\* "bad morning"
P_bad_morning ==
    <<"b", "a", "d", " ", "m", "o", "r", "n", "i", "n", "g">>

\* "sad morning"
P_sad_morning ==
    <<"s", "a", "d", " ", "m", "o", "r", "n", "i", "n", "g">>

\* "happy birthday"
P_happy_birthday ==
    <<"h", "a", "p", "p", "y", " ", "b", "i", "r", "t", "h", "d", "a", "y">>

\* "sad birthday"
P_sad_birthday ==
    <<"s", "a", "d", " ", "b", "i", "r", "t", "h", "d", "a", "y">>

\* "unhappy birthday"
P_unhappy_birthday ==
    <<"u", "n", "h", "a", "p", "p", "y", " ", "b", "i", "r", "t", "h", "d",
      "a", "y">>

\* the dictionary phrase_antonyms, as the pairs <<phrase, opposite>> its
\* nested loops visit (no opposite belongs to two phrases)
phrase_antonyms ==
    { <<P_i_love_you, P_i_hate_you>>, <<P_i_love_you, P_i_dislike_you>>,
      <<P_good_morning, P_bad_morning>>, <<P_good_morning, P_sad_morning>>,
      <<P_happy_birthday, P_sad_birthday>>,
      <<P_happy_birthday, P_unhappy_birthday>> }

\* ""
T_empty == <<>>

\* " \n"
T_blank == <<" ", "\n">>

\* "I LOVE you!"
T_source == <<"I", " ", "L", "O", "V", "E", " ", "y", "o", "u", "!">>

\* "Je t'aime."
T_fair == <<"J", "e", " ", "t", "'", "a", "i", "m", "e", ".">>

\* "i Hate You!"
T_rude == <<"i", " ", "H", "a", "t", "e", " ", "Y", "o", "u", "!">>

\* "I hate you; i dislike you?!?"
T_bad ==
    <<"I", " ", "h", "a", "t", "e", " ", "y", "o", "u", ";", " ", "i", " ",
      "d", "i", "s", "l", "i", "k", "e", " ", "y", "o", "u", "?", "!", "?">>

\* student names: "ann", "7", " " and ""
N_ann == <<"a", "n", "n">>

N_seven == <<"7">>

N_blank == <<" ">>

N_empty == <<>>

----------------------------------------------------------------------------
(* evaluate_translation and its scorers *)

\* a backend call that raises
Raise == [raised |-> TRUE]

\* nli_model(nli_input)[0], the score in ten-thousandths
NliResult(label, score) == [raised |-> FALSE, label |-> label, score |-> score]

\* util.cos_sim(source_emb, trans_emb)[0][0].item(), in ten-thousandths
StsResult(similarity) == [raised |-> FALSE, similarity |-> similarity]

\* the keywords kw_model.extract_keywords returns for the two texts
KwResult(source_keywords, trans_keywords) ==
    [raised |-> FALSE, source |-> source_keywords, translation |-> trans_keywords]

\* highlight_contradictions: the dict {opposite: phrase} of the pairs whose
\* phrase is in the lowered source and whose opposite is in the lowered
\* translation
Hits(src_lower, trans_lower) ==
    {pa \in phrase_antonyms :
        Contains(src_lower, pa[1]) /\ Contains(trans_lower, pa[2])}

HighlightsOf(hits) ==
    [opp \in {pa[2] : pa \in hits} |-> (CHOOSE pa \in hits : pa[2] = opp)[1]]

highlight_contradictions(source_text, translation_text) ==
    HighlightsOf(Hits(lower(source_text), lower(translation_text)))

\* round(x, 3) of a value given in ten-thousandths, as thousandths (the
\* values the model feeds are non-negative and not half-way cases)
Round3(x) == (x + 5) \div 10

\* NliBlock, recording the phrase hits only when the classifier says
\* CONTRADICTION
NliBlock_gated(source_text, translation_text, nli) ==
    IF nli.raised
    THEN [nli_label |-> "ERROR", nli_score |-> 0]
    ELSE [nli_label |-> nli.label, nli_score |-> Round3(nli.score)]
         @@ (IF nli.label = "CONTRADICTION"
             THEN [contradiction_highlights |->
                      highlight_contradictions(source_text, translation_text),
                   warning |-> "Translation contradicts source!"]
             ELSE <<>>)

\* the keys the NLI block sets: lines 74-84
NliBlock(source_text, translation_text, nli) ==
    IF nli.raised
    THEN [nli_label |-> "ERROR", nli_score |-> 0]
    ELSE [nli_label |-> nli.label,
          nli_score |-> Round3(nli.score),
          contradiction_highlights |->
              highlight_contradictions(source_text, translation_text)]
         @@ (IF nli.label = "CONTRADICTION"
             THEN [warning |-> "Translation contradicts source!"]
             ELSE <<>>)

\* lines 87-92
SimilarityBlock(sts) ==
    [semantic_similarity |-> Round3(sts.similarity)]
    @@ (IF sts.similarity < 7000
        THEN [semantic_warning |-> "Low semantic similarity."]
        ELSE <<>>)

\* [kw for kw in source_keywords if kw not in trans_keywords]
RECURSIVE Missing(_, _)
Missing(source_keywords, trans_keywords) ==
    IF source_keywords = <<>> THEN <<>>
    ELSE LET kw == Head(source_keywords)
             rest == Missing(Tail(source_keywords), trans_keywords)
         IN  IF \E i \in 1..Len(trans_keywords) : trans_keywords[i] = kw
             THEN rest
             ELSE <<kw>> \o rest

\* lines 98-101
KeywordKeys(missing_keywords) ==
    [missing_keywords |-> missing_keywords,
     literary_highlights |-> missing_keywords]
    @@ (IF missing_keywords # <<>>
        THEN [literary_warning |-> missing_keywords]
        ELSE <<>>)

\* lines 95-101
KeywordBlock(kw) == KeywordKeys(Missing(kw.source, kw.translation))

\* lines 104-107
StylisticBlock(source_text, translation_text) ==
    IF StylisticMismatch(source_text, translation_text)
    THEN [stylistic_warning |-> "Stylistic mismatch"]
    ELSE <<>>

\* evaluate_translation: only the NLI call sits in a try; an exception of the
\* embedding model or of the keyword extractor leaves the function
Escapes(sts, kw) == sts.raised \/ kw.raised

evaluate_translation(source_text, translation_text, nli, sts, kw) ==
    IF Escapes(sts, kw)
    THEN [raised |-> TRUE]
    ELSE [raised |-> FALSE,
          results |-> NliBlock(source_text, translation_text, nli)
                      @@ SimilarityBlock(sts)
                      @@ KeywordBlock(kw)
                      @@ StylisticBlock(source_text, translation_text)]

\* `key in results`
Has(results, key) == key \in DOMAIN results

\* award_points, giving 10 for any number of contradiction hits
award_points_flat(results) ==
    (IF Has(results, "contradiction_highlights")
        /\ DOMAIN results.contradiction_highlights # {}
     THEN 10 ELSE 0)
    + (IF Has(results, "literary_highlights") /\ results.literary_highlights # <<>>
       THEN 5 * Len(results.literary_highlights) ELSE 0)
    + (IF Has(results, "stylistic_warning") THEN 2 ELSE 0)

\* award_points: the points of one record (the caller adds them to the session)
award_points(results) ==
    (IF Has(results, "contradiction_highlights")
        /\ DOMAIN results.contradiction_highlights # {}
     THEN 10 * Cardinality(DOMAIN results.contradiction_highlights) ELSE 0)
    + (IF Has(results, "literary_highlights") /\ results.literary_highlights # <<>>
       THEN 5 * Len(results.literary_highlights) ELSE 0)
    + (IF Has(results, "stylistic_warning") THEN 2 ELSE 0)

InList(list, x) == \E i \in 1..Len(list) : list[i] = x

\* check_badges, without the tests that the badge is not yet in the list
check_badges_again(session_points, session_badges) ==
    [badges |-> session_badges
                \o (IF session_points >= 50 THEN <<"Poetry Master">> ELSE <<>>)
                \o (IF session_points >= 100 THEN <<"Translation Expert">> ELSE <<>>),
     earned |-> (IF session_points >= 50 THEN <<"Poetry Master">> ELSE <<>>)
                \o (IF session_points >= 100 THEN <<"Translation Expert">> ELSE <<>>)]

\* check_badges: the session's badge list afterwards and the badges returned
check_badges(session_points, session_badges) ==
    LET first == IF session_points >= 50 /\ ~InList(session_badges, "Poetry Master")
                 THEN <<"Poetry Master">> ELSE <<>>
        second == IF session_points >= 100
                     /\ ~InList(session_badges \o first, "Translation Expert")
                  THEN <<"Translation Expert">> ELSE <<>>
    IN  [badges |-> session_badges \o first \o second,
         earned |-> first \o second]

----------------------------------------------------------------------------
(* leaderboard.csv and the DataFrame read from it *)

Digits == <<"0", "1", "2", "3", "4", "5", "6", "7", "8", "9">>

IsDigit(c) == \E d \in 1..10 : Digits[d] = c

DigitVal(c) == (CHOOSE d \in 1..10 : Digits[d] = c) - 1

\* a cell pandas' type inference reads as an integer
IsNumeric(text) == text # <<>> /\ \A i \in 1..Len(text) : IsDigit(text[i])

\* int(text)
RECURSIVE ParseInt(_)
ParseInt(text) ==
    IF text = <<>> THEN 0
    ELSE 10 * ParseInt(SubSeq(text, 1, Len(text) - 1)) + DigitVal(text[Len(text)])

\* str(n)
RECURSIVE ToDigits(_)
ToDigits(n) ==
    IF n < 10 THEN <<Digits[n + 1]>>
    ELSE ToDigits(n \div 10) \o <<Digits[(n % 10) + 1]>>

StrCell(text) == [kind |-> "str", val |-> text]

IntCell(n) == [kind |-> "int", val |-> n]

\* pd.read_csv(LEADERBOARD_FILE), or the empty frame when the file does not
\* exist: a Student column whose cells are all integers is read as integers,
\* any other as strings; Points are integers
ParseRows(rows, numeric) ==
    [i \in 1..Len(rows) |->
        [Student |-> IF numeric THEN IntCell(ParseInt(rows[i].Student))
                     ELSE StrCell(rows[i].Student),
         Points |-> ParseInt(rows[i].Points)]]

read_csv(rows) ==
    ParseRows(rows, \A i \in 1..Len(rows) : IsNumeric(rows[i].Student))

\* df['Student']==student_name, as the set of row numbers: a string equals
\* no integer cell
Mask(frame, student_name) ==
    {i \in 1..Len(frame) :
        frame[i].Student.kind = "str" /\ frame[i].Student.val = student_name}

\* lines 148-151: update the student's rows to the larger of the new score and
\* the first matching row's, or append a row
SetPoints(frame, mask, best) ==
    [i \in 1..Len(frame) |->
        IF i \in mask THEN [frame[i] EXCEPT !.Points = best] ELSE frame[i]]

UpdateMasked(frame, mask, student_name, score) ==
    IF mask # {}
    THEN SetPoints(frame, mask,
            Max(score, frame[CHOOSE i \in mask : \A j \in mask : i <= j].Points))
    ELSE Append(frame, [Student |-> StrCell(student_name), Points |-> score])

UpdateFrame(frame, student_name, score) ==
    UpdateMasked(frame, Mask(frame, student_name), student_name, score)

\* df.to_csv(LEADERBOARD_FILE, index=False)
to_csv(frame) ==
    [i \in 1..Len(frame) |->
        [Student |-> IF frame[i].Student.kind = "int"
                     THEN ToDigits(frame[i].Student.val)
                     ELSE frame[i].Student.val,
         Points |-> ToDigits(frame[i].Points)]]

\* the rows leaderboard.csv holds for a student, and the largest score among
\* them (-1 when the student has no row)
RowsOf(student_name) == {i \in 1..Len(file) : file[i].Student = student_name}

Largest(scores) ==
    IF scores = {} THEN -1 ELSE CHOOSE m \in scores : \A x \in scores : x <= m

LbValue(student_name) ==
    Largest({ParseInt(file[i].Points) : i \in RowsOf(student_name)})

----------------------------------------------------------------------------
(* The sessions and what the user and the backends may feed them *)

Sessions == {"s1", "s2"}

Badges == {"Poetry Master", "Translation Expert"}

\* keywords of a source text, none of them among the translation's
SourceKeywords == <<"love", "light", "wings", "walls", "stony", "limits">>

\* the inputs of one session studied alone
Rich ==
    [names |-> {N_ann, N_blank},
     sources |-> {T_empty, T_blank, T_source, T_fair},
     translations |-> {T_empty, T_blank, T_bad, T_rude},
     nli |-> {NliResult("ENTAILMENT", 9876), NliResult("CONTRADICTION", 5432), Raise},
     sts |-> {StsResult(4321), StsResult(8765), Raise},
     kw |-> {KwResult(<<"love">>, <<"love">>), KwResult(SourceKeywords, <<"amour">>), Raise}]

\* the inputs of the sessions that share the leaderboard
Lean ==
    [names |-> {N_ann, N_seven, N_empty},
     sources |-> {T_source},
     translations |-> {T_bad, T_blank},
     nli |-> {NliResult("CONTRADICTION", 9876)},
     sts |-> {StsResult(8765), Raise},
     kw |-> {KwResult(<<"love">>, <<"love">>), KwResult(SourceKeywords, <<"amour">>)}]

\* the names update_leaderboard can be called with
Students == {N_ann, N_seven}

NoCall == [called |-> FALSE]

Init ==
    /\ points = [s \in Sessions |-> 0]
    /\ badges = [s \in Sessions |-> <<>>]
    /\ attempts = [s \in Sessions |-> 0]
    /\ run = [s \in Sessions |-> [outcome |-> "none", evaluate_called |-> FALSE]]
    /\ pc = [s \in Sessions |-> "idle"]
    /\ df = [s \in Sessions |-> <<>>]
    /\ file = <<>>
    /\ reported = [s \in Sessions |-> [b \in Badges |-> 0]]
    /\ maxDone = [n \in Students |-> -1]
    /\ lastDone = [s \in Sessions |-> NoCall]

\* the widget values a script run starts with
Inputs(student_name, source_text, translation_text) ==
    [student_name |-> student_name,
     source_text |-> source_text,
     translation_text |-> translation_text]

\* line 191 without the calls of strip()
Valid_unstripped(source_text, translation_text) ==
    source_text # <<>> /\ translation_text # <<>>

\* line 191: both texts must hold something but whitespace
Valid(source_text, translation_text) ==
    strip(source_text) # <<>> /\ strip(translation_text) # <<>>

\* line 190: the button is clicked while the name is blank; nothing runs
Ignored(s, student_name, source_text, translation_text) ==
    /\ pc[s] = "idle"
    /\ strip(student_name) = <<>>
    /\ run' = [run EXCEPT ![s] =
                Inputs(student_name, source_text, translation_text)
                @@ [outcome |-> "ignored", evaluate_called |-> FALSE]]
    /\ UNCHANGED <<points, badges, attempts, pc, df, file, reported, maxDone, lastDone>>

\* lines 191-192: a blank source or translation gets the warning
Rejected(s, student_name, source_text, translation_text) ==
    /\ pc[s] = "idle"
    /\ strip(student_name) # <<>>
    /\ ~Valid(source_text, translation_text)
    /\ run' = [run EXCEPT ![s] =
                Inputs(student_name, source_text, translation_text)
                @@ [outcome |-> "warning", evaluate_called |-> FALSE]]
    /\ UNCHANGED <<points, badges, attempts, pc, df, file, reported, maxDone, lastDone>>

\* the scorers whose backend raised in this run
RaisedBy(nli, sts, kw) ==
    {k \in {"nli", "sts", "kw"} :
        (k = "nli" /\ nli.raised) \/ (k = "sts" /\ sts.raised) \/ (k = "kw" /\ kw.raised)}

\* lines 194-195 when evaluate_translation raises: the script run ends there
Raised(s, student_name, source_text, translation_text, nli, sts, kw) ==
    /\ pc[s] = "idle"
    /\ attempts[s] < MaxAttempts
    /\ strip(student_name) # <<>>
    /\ Valid(source_text, translation_text)
    /\ Escapes(sts, kw)
    /\ attempts' = [attempts EXCEPT ![s] = @ + 1]
    /\ run' = [run EXCEPT ![s] =
                Inputs(student_name, source_text, translation_text)
                @@ [outcome |-> "exception", evaluate_called |-> TRUE,
                    raised_by |-> RaisedBy(nli, sts, kw)]]
    /\ UNCHANGED <<points, badges, pc, df, file, reported, maxDone, lastDone>>

\* lines 222-225, after award_points has raised the session's points
Checked(session_points, earned_points, checked) ==
    [points |-> session_points,
     badges |-> checked.badges,
     earned_points |-> earned_points,
     earned_badges |-> checked.earned]

\* check_badges looking at the points of this attempt alone
Awarded_attempt(session_points, session_badges, earned_points) ==
    Checked(session_points + earned_points, earned_points,
            check_badges(earned_points, session_badges))

Awarded(session_points, session_badges, earned_points) ==
    Checked(session_points + earned_points, earned_points,
            check_badges(session_points + earned_points, session_badges))

\* lines 218-225: award_points adds the record's points to the session, then
\* check_badges looks at the session's points
Gamification(session_points, session_badges, results) ==
    Awarded(session_points, session_badges, award_points(results))

\* what lines 196-227 leave behind, given the record and the gamification
Outcome(s, inputs, raised_by, results, g) ==
    /\ points' = [points EXCEPT ![s] = g.points]
    /\ badges' = [badges EXCEPT ![s] = g.badges]
    /\ reported' = [reported EXCEPT ![s] =
            [b \in Badges |-> IF InList(g.earned_badges, b) THEN @[b] + 1 ELSE @[b]]]
    /\ run' = [run EXCEPT ![s] =
            inputs @@ [outcome |-> "evaluated", evaluate_called |-> TRUE,
                       raised_by |-> raised_by,
                       results |-> results,
                       earned_points |-> g.earned_points,
                       earned_badges |-> g.earned_badges]]

Finish(s, inputs, raised_by, ev) ==
    /\ ~ev.raised
    /\ Outcome(s, inputs, raised_by, ev.results,
               Gamification(points[s], badges[s], ev.results))

\* lines 194-227: evaluation, award_points and check_badges; the run then
\* stands before update_leaderboard
Evaluated(s, student_name, source_text, translation_text, nli, sts, kw) ==
    /\ pc[s] = "idle"
    /\ attempts[s] < MaxAttempts
    /\ strip(student_name) # <<>>
    /\ Valid(source_text, translation_text)
    /\ Finish(s, Inputs(student_name, source_text, translation_text),
              RaisedBy(nli, sts, kw),
              evaluate_translation(source_text, translation_text, nli, sts, kw))
    /\ attempts' = [attempts EXCEPT ![s] = @ + 1]
    /\ pc' = [pc EXCEPT ![s] = "lb_read"]
    /\ UNCHANGED <<df, file, maxDone, lastDone>>

\* lines 143-146: update_leaderboard reads the file
ReadLeaderboard(s) ==
    /\ pc[s] = "lb_read"
    /\ df' = [df EXCEPT ![s] = read_csv(file)]
    /\ pc' = [pc EXCEPT ![s] = "lb_write"]
    /\ UNCHANGED <<points, badges, attempts, run, file, reported, maxDone, lastDone>>

\* lines 148-154: update_leaderboard updates its frame and writes it back
WriteLeaderboard(s) ==
    /\ pc[s] = "lb_write"
    /\ file' = to_csv(UpdateFrame(df[s], run[s].student_name, points[s]))
    /\ maxDone' = [maxDone EXCEPT ![run[s].student_name] = Max(@, points[s])]
    /\ lastDone' = [lastDone EXCEPT ![s] =
            [called |-> TRUE, student_name |-> run[s].student_name,
             points |-> points[s]]]
    /\ df' = [df EXCEPT ![s] = <<>>]
    /\ pc' = [pc EXCEPT ![s] = "idle"]
    /\ UNCHANGED <<points, badges, attempts, run, reported>>

\* one step of session s, its inputs drawn from the sets of I
Step(s, I) ==
    \/ \E student_name \in I.names, source_text \in I.sources,
          translation_text \in I.translations :
          \/ Ignored(s, student_name, source_text, translation_text)
          \/ Rejected(s, student_name, source_text, translation_text)
          \/ \E nli \in I.nli, sts \in I.sts, kw \in I.kw :
                \/ Raised(s, student_name, source_text, translation_text, nli, sts, kw)
                \/ Evaluated(s, student_name, source_text, translation_text, nli, sts, kw)
    \/ ReadLeaderboard(s)
    \/ WriteLeaderboard(s)

\* the sessions of the server, sharing leaderboard.csv
Next == \E s \in Sessions : Step(s, Lean)

Spec == Init /\ [][Next]_vars

\* one session alone, with the wider inputs
NextSession == Step("s1", Rich)

SpecSession == Init /\ [][NextSession]_vars

----------------------------------------------------------------------------
(* The claims *)

Completed(s) == run[s].outcome = "evaluated"

Occurrences(list, x) == Cardinality({i \in 1..Len(list) : list[i] = x})

\* the counts award_points' three rules look at in a record
HitCount(results) ==
    IF Has(results, "contradiction_highlights")
    THEN Cardinality(DOMAIN results.contradiction_highlights) ELSE 0

MissingCount(results) == Len(results.missing_keywords)

StyleCount(results) == IF Has(results, "stylistic_warning") THEN 1 ELSE 0

\* C1: the leaderboard value stored for a student never decreases, whichever
\* sessions submit under that name.
C1_LeaderboardNeverDecreases ==
    [][\A n \in Students : LbValue(n)' >= LbValue(n)]_vars

\* C2: when a single scorer raises in evaluate_translation, a record is still
\* returned and the submission goes on to award_points and check_badges.
C2_ScorerFailureAbsorbed ==
    \A s \in Sessions :
        (run[s].evaluate_called /\ Cardinality(run[s].raised_by) = 1)
            => Completed(s)

\* C3: each badge occurs at most once in a session's badge list, and
\* check_badges reports it as newly earned in at most one evaluation.
C3_BadgeAtMostOnce ==
    \A s \in Sessions : \A b \in Badges :
        Occurrences(badges[s], b) <= 1 /\ reported[s][b] <= 1

\* a second evaluation of a session that already held "Poetry Master"
C3_Witness ==
    \E s \in Sessions :
        /\ Completed(s)
        /\ points[s] - run[s].earned_points >= 50
        /\ InList(badges[s], "Poetry Master")
        /\ run[s].earned_badges = <<>>

\* C4: after every completed evaluation "Poetry Master" is in the session's
\* badges exactly if its cumulative points are >= 50 and "Translation Expert"
\* exactly if they are >= 100, whatever the single attempt earned.
C4_BadgesFollowCumulativePoints ==
    \A s \in Sessions :
        /\ InList(badges[s], "Poetry Master") <=> points[s] >= 50
        /\ InList(badges[s], "Translation Expert") <=> points[s] >= 100

\* an attempt worth less than 50 points takes the session over the threshold
C4_Witness ==
    \E s \in Sessions :
        /\ Completed(s)
        /\ run[s].earned_points < 50
        /\ points[s] >= 50
        /\ InList(run[s].earned_badges, "Poetry Master")

\* C5: the leaderboard holds at most one row per student, and its points are
\* the largest score a completed update_leaderboard call submitted for that
\* student (no row while there was no call).
C5_OneEntryHoldingTheMaximum ==
    \A n \in Students :
        Cardinality(RowsOf(n)) <= 1 /\ LbValue(n) = maxDone[n]

\* C6: once the update_leaderboard calls of the sessions have completed,
\* overlapping or not, each student's entry is at least the score each call
\* submitted for that student.
C6_NoLostUpdate ==
    (\A s \in Sessions : pc[s] = "idle")
        => \A s \in Sessions :
              lastDone[s].called
                  => LbValue(lastDone[s].student_name) >= lastDone[s].points

\* a script run started with a blank source or a blank translation
BlankRun(r) ==
    /\ r.outcome # "none"
    /\ strip(r.source_text) = <<>> \/ strip(r.translation_text) = <<>>

\* C7: a submission with a blank translation or a blank source is rejected
\* before evaluation: evaluate_translation is not called and attempts, points,
\* badges and the leaderboard stay as they were.
C7_BlankSubmissionRejected ==
    [][\A s \in Sessions :
          (run'[s] # run[s] /\ BlankRun(run'[s]))
              => /\ ~run'[s].evaluate_called
                 /\ attempts'[s] = attempts[s]
                 /\ points'[s] = points[s]
                 /\ badges'[s] = badges[s]
                 /\ file' = file]_vars

\* a whitespace-only translation got the warning in a session that has points
C7_Witness ==
    \E s \in Sessions :
        /\ run[s].outcome = "warning"
        /\ run[s].translation_text = T_blank
        /\ strip(run[s].source_text) # <<>>
        /\ attempts[s] > 0
        /\ points[s] > 0

\* C8: award_points returns at least 10 for every evaluation record.
C8_MinimumAward ==
    \A s \in Sessions : Completed(s) => run[s].earned_points >= 10

\* C9: the points award_points returns are 10 per contradiction hit of the
\* record, 5 per missing keyword and 2 for a stylistic warning: a function of
\* the record alone.
C9_AwardFromRecord ==
    \A s \in Sessions :
        Completed(s)
            => run[s].earned_points
                 = 10 * HitCount(run[s].results)
                   + 5 * MissingCount(run[s].results)
                   + 2 * StyleCount(run[s].results)

\* all three rules fire in a session that already had points
C9_Witness ==
    \E s \in Sessions :
        /\ Completed(s)
        /\ HitCount(run[s].results) >= 2
        /\ MissingCount(run[s].results) > 0
        /\ StyleCount(run[s].results) = 1
        /\ points[s] > run[s].earned_points

\* C10: whatever label and confidence the classifier returns, the record's
\* contradiction highlights are highlight_contradictions(source, translation)
\* and the contradiction points are 10 for each of them.
C10_HighlightsIgnoreTheClassifier ==
    \A s \in Sessions :
        (Completed(s) /\ "nli" \notin run[s].raised_by)
            => /\ Has(run[s].results, "contradiction_highlights")
               /\ run[s].results.contradiction_highlights
                    = highlight_contradictions(run[s].source_text,
                                               run[s].translation_text)
               /\ run[s].earned_points
                    - 5 * MissingCount(run[s].results)
                    - 2 * StyleCount(run[s].results)
                    = 10 * Cardinality(DOMAIN highlight_contradictions(
                                run[s].source_text, run[s].translation_text))

\* the classifier says ENTAILMENT of a pair that has phrase hits
C10_Witness ==
    \E s \in Sessions :
        /\ Completed(s)
        /\ run[s].results.nli_label = "ENTAILMENT"
        /\ HitCount(run[s].results) > 0

====
